---- MODULE Spec2Model ----
(***************************************************************************)
(* Model of src/app.py: a Streamlit script that is re-run from top to      *)
(* bottom on every user action.  The only state that survives a run is     *)
(* st.session_state (keys 'data', 'backtest_data', 'account'); everything  *)
(* else is recomputed and rendered during the run.                         *)
(*                                                                         *)
(* Conventions.                                                            *)
(*  - A frame is a record of columns; a column is a function on the bar    *)
(*    indices 0..n-1 (the positional index of the DataFrame).              *)
(*  - Prices, capital and commission are whole currency units, so that     *)
(*    float arithmetic on them is exact.                                   *)
(*  - A float that may be fractional or NaN is a pair <<num, den>> in      *)
(*    lowest terms with den > 0; NaN is <<0, 0>>.                          *)
(*  - pandas semantics are those of the 1.x/2.x line the script is written *)
(*    for: the chained assignment of line 152 writes through to the frame. *)
(*  - The RSI, MACD and Signal_Line columns (lines 90-101) and the         *)
(*    High/Low/Volume columns are not read by any later stage and are      *)
(*    left out of the frames.                                              *)
(***************************************************************************)
EXTENDS Integers, Sequences, FiniteSets, TLC

\* session_state: st.session_state, a map from the keys present to frames
\* clicked:       the button that triggered the latest run, with the widget
\*                values its handler read
\* messages:      the st.success / st.warning / st.error texts of the latest run
\* metrics:       the risk metrics shown by the latest run
\* runs:          how many times the script has run
VARIABLES session_state, clicked, messages, metrics, runs

vars == <<session_state, clicked, messages, metrics, runs>>

----------------------------------------------------------------------------
(* Bounds of the model and program constants *)

\* number of leading bars of a fetched series that trade flat at BasePrice
LeadBars == 49
\* number of trailing bars whose close is drawn from TailPrices
TailBars == 2
\* number of user actions (script runs) in a session
MaxRuns == 4
\* overnight gap: Open[i] = Close[i-1] + OpenGap
OpenGap == 50

BasePrice == 1200
TailPrices == {700, 1700}

\* windows hard-wired in calculate_indicators
SMA20Window == 20
SMA50Window == 50
\* st.number_input("Initial Capital", min_value=1000, ...)
MinCapital == 1000

\* values the user gives the two SMA number inputs (short in 5..50, long in 20..200)
Windows == {<<5, 20>>, <<20, 50>>, <<50, 20>>}
\* values the user gives the capital and commission inputs
Capitals == {MinCapital, 2000}
Commissions == {0, 300}

----------------------------------------------------------------------------
(* Exact arithmetic standing for float64 *)

NaN == <<0, 0>>

IsNaN(x) == x[2] = 0

Abs(n) == IF n < 0 THEN -n ELSE n

RECURSIVE GCD(_, _)
GCD(a, b) == IF b = 0 THEN a ELSE GCD(b, a % b)

\* the float n / d (d # 0), in lowest terms
Rat(n, d) ==
    LET g == GCD(Abs(n), Abs(d))
        s == IF d < 0 THEN -1 ELSE 1
    IN  <<(s * n) \div g, (s * d) \div g>>

FromInt(n) == <<n, 1>>

RatMul(a, b) == IF IsNaN(a) \/ IsNaN(b) THEN NaN ELSE Rat(a[1] * b[1], a[2] * b[2])

RatAdd(a, b) ==
    IF IsNaN(a) \/ IsNaN(b) THEN NaN ELSE Rat(a[1] * b[2] + b[1] * a[2], a[2] * b[2])

\* a > b on floats: False when either side is NaN
RatGT(a, b) == ~IsNaN(a) /\ ~IsNaN(b) /\ a[1] * b[2] > b[1] * a[2]

NumRows(col) == Cardinality(DOMAIN col)

RECURSIVE SumRange(_, _, _)
SumRange(col, lo, hi) == IF lo > hi THEN 0 ELSE col[hi] + SumRange(col, lo, hi - 1)

----------------------------------------------------------------------------
(* fetch_data: the provider's answer *)

\* the price tables the provider can return: LeadBars flat bars, then TailBars
\* bars closing at prices from TailPrices; each bar opens OpenGap above the
\* previous close
NumBars == LeadBars + TailBars

CloseOf(tail) == [i \in 0..(NumBars - 1) |-> IF i < LeadBars THEN BasePrice ELSE tail[i - LeadBars + 1]]

OpenOf(close) == [i \in DOMAIN close |-> IF i = 0 THEN close[0] ELSE close[i - 1] + OpenGap]

PriceTables ==
    { [Open |-> OpenOf(CloseOf(tail)), Close |-> CloseOf(tail)] :
        tail \in [1..TailBars -> TailPrices] }

----------------------------------------------------------------------------
(* calculate_indicators *)

\* Series.rolling(window).mean(): NaN until `window` values are in the window
RollingMean(col, window) ==
    [i \in DOMAIN col |->
        IF i + 1 < window THEN NaN
        ELSE Rat(SumRange(col, i - window + 1, i), window)]

AddColumns(frame, new) ==
    [c \in DOMAIN frame \cup DOMAIN new |-> IF c \in DOMAIN new THEN new[c] ELSE frame[c]]

calculate_indicators(data) ==
    AddColumns(data, [SMA_20 |-> RollingMean(data.Close, SMA20Window),
                      SMA_50 |-> RollingMean(data.Close, SMA50Window)])

----------------------------------------------------------------------------
(* backtest_strategy *)

\* SignalColumn with the warm-up rows compared like the rest
SignalColumn_NoWarmup(short, long, sma_short) ==
    [i \in DOMAIN short |-> IF RatGT(short[i], long[i]) THEN 1 ELSE 0]

\* lines 151-153: Signal is 0, then rows sma_short.. are overwritten by
\* np.where(SMA_short > SMA_long, 1, 0); a comparison with NaN is False
SignalColumn(short, long, sma_short) ==
    [i \in DOMAIN short |->
        IF i < sma_short THEN 0
        ELSE IF RatGT(short[i], long[i]) THEN 1 ELSE 0]

\* Series.diff() of an integer column: NaN in row 0
Diff(col) == [i \in DOMAIN col |-> IF i = 0 THEN NaN ELSE FromInt(col[i] - col[i - 1])]

\* Series.pct_change(): NaN in row 0
PctChange(col) ==
    [i \in DOMAIN col |-> IF i = 0 THEN NaN ELSE Rat(col[i] - col[i - 1], col[i - 1])]

\* Series.shift(1): NaN in row 0
Shift1(col) == [i \in DOMAIN col |-> IF i = 0 THEN NaN ELSE col[i - 1]]

Times(a, b) == [i \in DOMAIN a |-> RatMul(a[i], b[i])]

OnePlus(col) == [i \in DOMAIN col |-> RatAdd(FromInt(1), col[i])]

\* the value cumprod writes in a row: NaN where the input is NaN, else the
\* running product of the non-NaN inputs so far
CumProdCell(x, acc) == IF IsNaN(x) THEN NaN ELSE acc

RECURSIVE CumProdFrom(_, _, _, _, _)
CumProdFrom(col, i, n, acc, out) ==
    IF i = n THEN out
    ELSE LET x == col[i]
             acc2 == IF IsNaN(x) THEN acc ELSE RatMul(acc, x)
         IN  CumProdFrom(col, i + 1, n, acc2, Append(out, CumProdCell(x, acc2)))

\* Series.cumprod() (skipna=True)
CumProd(col) ==
    LET out == CumProdFrom(col, 0, NumRows(col), FromInt(1), <<>>)
    IN  [i \in DOMAIN col |-> out[i + 1]]

\* lines 143-148: the SMA columns the strategy compares
SMAColumns(data, sma_short, sma_long) ==
    IF "SMA_20" \notin DOMAIN data
    THEN [SMA_short |-> RollingMean(data.Close, sma_short),
          SMA_long |-> RollingMean(data.Close, sma_long)]
    ELSE [SMA_short |-> data.SMA_20, SMA_long |-> data.SMA_50]

backtest_strategy(data, sma_short, sma_long) ==
    LET sma == SMAColumns(data, sma_short, sma_long)
        Signal == SignalColumn(sma.SMA_short, sma.SMA_long, sma_short)
        Position == Diff(Signal)
        Daily_Return == PctChange(data.Close)
        Strategy_Return == Times(Shift1(Position), Daily_Return)
    IN  AddColumns(data,
            [SMA_short |-> sma.SMA_short,
             SMA_long |-> sma.SMA_long,
             Signal |-> Signal,
             Position |-> Position,
             Daily_Return |-> Daily_Return,
             Strategy_Return |-> Strategy_Return,
             Cumulative_Market |-> CumProd(OnePlus(Daily_Return)),
             Cumulative_Strategy |-> CumProd(OnePlus(Strategy_Return))])

----------------------------------------------------------------------------
(* Risk Analysis, lines 230-238 *)

Defined(col) == {i \in DOMAIN col : ~IsNaN(col[i])}

\* Series.std() == 0: at least two defined values (ddof = 1), all of them equal
StdIsZero(col) ==
    LET defined == Defined(col)
    IN  /\ Cardinality(defined) >= 2
        /\ LET first == CHOOSE i \in defined : TRUE
           IN  \A i \in defined : col[i] = col[first]

\* the text f"{sharpe_ratio:.2f}" renders.  mean / std on float64 raises
\* nothing: x / NaN = NaN, 0 / 0 = NaN, x / 0 = +-inf
SharpeText(col) ==
    LET defined == Defined(col)
    IN  IF Cardinality(defined) < 2 THEN "nan"
        ELSE IF StdIsZero(col)
             THEN LET v == col[CHOOSE i \in defined : TRUE]
                  IN  IF v[1] = 0 THEN "nan" ELSE IF v[1] > 0 THEN "inf" ELSE "-inf"
             ELSE "number"

\* what the page shows after a run: the Risk Analysis section is rendered
\* whenever 'backtest_data' is in the session state (line 207)
NoMetrics == [sharpe_ratio |-> "not shown"]

Render(state) ==
    IF "backtest_data" \in DOMAIN state
    THEN [sharpe_ratio |-> SharpeText(state["backtest_data"].Strategy_Return)]
    ELSE NoMetrics

----------------------------------------------------------------------------
(* Paper Trading Simulation, lines 252-281 *)

\* SharesToBuy rounding the quotient up
SharesToBuy_RoundUp(cash, open) == (cash + open - 1) \div open

\* line 264: Cash // Open
SharesToBuy(cash, open) == cash \div open

\* Buy charging the commission whether or not a share is bought
Buy_AlwaysCharge(row, open, commission) ==
    LET shares_to_buy == row.Cash \div open
    IN  [row EXCEPT !.Cash = @ - (IF shares_to_buy > 0 THEN shares_to_buy * open ELSE 0)
                                - commission,
                    !.Shares = @ + (IF shares_to_buy > 0 THEN shares_to_buy ELSE 0)]

\* lines 263-267
Buy(row, open, commission) ==
    LET shares_to_buy == SharesToBuy(row.Cash, open)
    IN  IF shares_to_buy > 0
        THEN [row EXCEPT !.Cash = @ - (shares_to_buy * open + commission),
                         !.Shares = @ + shares_to_buy]
        ELSE row

\* Sell that credits the proceeds but leaves the shares on the books
Sell_KeepShares(row, open, commission) ==
    IF row.Shares > 0
    THEN [row EXCEPT !.Cash = @ + row.Shares * open - commission]
    ELSE row

\* lines 270-273
Sell(row, open, commission) ==
    IF row.Shares > 0
    THEN [row EXCEPT !.Cash = @ + row.Shares * open - commission,
                     !.Shares = 0]
    ELSE row

\* UpdateTotal that leaves the carried total in place
UpdateTotal_Stale(row, close) == row

\* lines 276-279
UpdateTotal(row, close) == [row EXCEPT !.Total = row.Cash + row.Shares * close]

\* SimStep taking every bar that is not an exit for an entry
SimStep_BuyOnFlat(row, prev, position, open, close, commission) ==
    LET carried == [row EXCEPT !.Cash = prev.Cash, !.Shares = prev.Shares]
        traded == IF position = FromInt(-1) THEN Sell(carried, open, commission)
                  ELSE Buy(carried, open, commission)
    IN  UpdateTotal(traded, close)

\* one pass of the loop body, lines 259-279: `row` is row i as initialised,
\* `prev` is row i-1
SimStep(row, prev, position, open, close, commission) ==
    LET carried == [row EXCEPT !.Cash = prev.Cash, !.Shares = prev.Shares]
        traded == IF position = FromInt(1) THEN Buy(carried, open, commission)
                  ELSE IF position = FromInt(-1) THEN Sell(carried, open, commission)
                  ELSE carried
    IN  UpdateTotal(traded, close)

\* lines 253-256: every row starts as (initial_capital, 0, initial_capital)
InitialRow(initial_capital) ==
    [Cash |-> initial_capital, Shares |-> 0, Total |-> initial_capital]

RECURSIVE SimRows(_, _, _, _, _, _)
SimRows(data, i, n, initial_capital, commission, rows) ==
    IF i = n THEN rows
    ELSE SimRows(data, i + 1, n, initial_capital, commission,
                 Append(rows,
                        IF i = 0 THEN InitialRow(initial_capital)
                        ELSE SimStep(InitialRow(initial_capital), rows[i],
                                     data.Position[i], data.Open[i],
                                     data.Close[i], commission)))

\* the account frame stored at line 281
Simulate(data, initial_capital, commission) ==
    LET rows == SimRows(data, 0, NumRows(data.Close), initial_capital, commission, <<>>)
    IN  [Cash |-> [i \in DOMAIN data.Close |-> rows[i + 1].Cash],
         Shares |-> [i \in DOMAIN data.Close |-> rows[i + 1].Shares],
         Total |-> [i \in DOMAIN data.Close |-> rows[i + 1].Total]]

----------------------------------------------------------------------------
(* The script: one run per user action *)

Has(key) == key \in DOMAIN session_state

\* st.session_state[key] = value
Put(state, key, value) ==
    [k \in DOMAIN state \cup {key} |-> IF k = key THEN value ELSE state[k]]

MsgFetched == "Successfully fetched data"
MsgNoData == "No data found for the given ticker and date range."
MsgFetchError == "Error fetching data"
MsgIndicators == "Indicators calculated!"
MsgBacktest == "Backtest completed!"
MsgNeedBacktest == "Please run a backtest first"

Init ==
    /\ session_state = <<>>
    /\ clicked = [button |-> "none"]
    /\ messages = {}
    /\ metrics = NoMetrics
    /\ runs = 0

\* every action is one more run of the script
OneMoreRun == runs < MaxRuns /\ runs' = runs + 1

\* lines 41-46, the provider returned a table
FetchDataOk ==
    \E table \in PriceTables :
        /\ OneMoreRun
        /\ session_state' = Put(session_state, "data", table)
        /\ clicked' = [button |-> "Fetch Data"]
        /\ messages' = {MsgFetched}
        /\ metrics' = Render(session_state')

\* lines 27-33, 44: empty result or exception, fetch_data returns None
FetchDataFail ==
    \E msg \in {MsgNoData, MsgFetchError} :
        /\ OneMoreRun
        /\ session_state' = session_state
        /\ clicked' = [button |-> "Fetch Data"]
        /\ messages' = {msg}
        /\ metrics' = Render(session_state')

\* lines 105-109
CalculateIndicators ==
    /\ OneMoreRun
    /\ Has("data")
    /\ session_state' = Put(session_state, "data", calculate_indicators(session_state["data"]))
    /\ clicked' = [button |-> "Calculate Indicators"]
    /\ messages' = {MsgIndicators}
    /\ metrics' = Render(session_state')

\* lines 164-177
RunBacktest ==
    /\ OneMoreRun
    /\ Has("data")
    /\ \E w \in Windows :
          /\ session_state' = Put(session_state, "backtest_data",
                                  backtest_strategy(session_state["data"], w[1], w[2]))
          /\ clicked' = [button |-> "Run Backtest", sma_short |-> w[1], sma_long |-> w[2]]
    /\ messages' = {MsgBacktest}
    /\ metrics' = Render(session_state')

\* RunSimulation without the 'backtest_data' check: with no backtest frame it
\* simulates on the price table, every Position missing
RunSimulation_NoCheck ==
    /\ OneMoreRun
    /\ Has("data")
    /\ \E initial_capital \in Capitals, commission \in Commissions :
          /\ LET frame == IF Has("backtest_data") THEN session_state["backtest_data"]
                          ELSE AddColumns(session_state["data"],
                                   [Position |-> [i \in DOMAIN session_state["data"].Close |-> NaN]])
             IN  session_state' = Put(session_state, "account",
                                      Simulate(frame, initial_capital, commission))
          /\ messages' = {}
          /\ clicked' = [button |-> "Run Simulation",
                         initial_capital |-> initial_capital, commission |-> commission]
    /\ metrics' = Render(session_state')

\* lines 240-281
RunSimulation ==
    /\ OneMoreRun
    /\ Has("data")
    /\ \E initial_capital \in Capitals, commission \in Commissions :
          /\ IF ~Has("backtest_data")
             THEN /\ session_state' = session_state
                  /\ messages' = {MsgNeedBacktest}
             ELSE /\ session_state' = Put(session_state, "account",
                                          Simulate(session_state["backtest_data"],
                                                   initial_capital, commission))
                  /\ messages' = {}
          /\ clicked' = [button |-> "Run Simulation",
                         initial_capital |-> initial_capital, commission |-> commission]
    /\ metrics' = Render(session_state')

Next ==
    \/ FetchDataOk
    \/ FetchDataFail
    \/ CalculateIndicators
    \/ RunBacktest
    \/ RunSimulation

Spec == Init /\ [][Next]_vars

----------------------------------------------------------------------------
(* Properties *)

Frame(key) == session_state[key]

Bars(frame) == DOMAIN frame.Close

LaterBars(frame) == Bars(frame) \ {0}

\* the latest run was Run Backtest: 'backtest_data' is the frame it returned
FreshBacktest == clicked.button = "Run Backtest"

\* the latest run was a Run Simulation that got past the precondition check:
\* 'account' is the ledger of 'backtest_data' under the inputs in `clicked`
FreshAccount == clicked.button = "Run Simulation" /\ Has("backtest_data")

Entry(bt, i) == bt.Position[i] = <<1, 1>>

Exit(bt, i) == bt.Position[i] = <<-1, 1>>

Carried(acct, i) ==
    /\ acct.Cash[i] = acct.Cash[i - 1]
    /\ acct.Shares[i] = acct.Shares[i - 1]

\* C1: at every bar i >= 1 with Position[i] = +1 the simulator buys
\* floor(Cash[i-1] / Open[i]) shares; if that is > 0, Cash drops by
\* shares * Open[i] + Commission and Shares rises by that number; if it is 0,
\* Cash and Shares are carried forward and no commission is charged.
C1_BuyRule ==
    FreshAccount =>
        LET bt == Frame("backtest_data")
            acct == Frame("account")
            commission == clicked.commission
        IN  \A i \in LaterBars(bt) :
                Entry(bt, i) =>
                    LET SharesBought == acct.Cash[i - 1] \div bt.Open[i]
                    IN  IF SharesBought > 0
                        THEN /\ acct.Cash[i] = acct.Cash[i - 1]
                                                 - (SharesBought * bt.Open[i] + commission)
                             /\ acct.Shares[i] = acct.Shares[i - 1] + SharesBought
                        ELSE Carried(acct, i)

\* an entry bar where shares were bought and a positive commission charged
C1_Witness ==
    /\ FreshAccount
    /\ clicked.commission > 0
    /\ \E i \in LaterBars(Frame("backtest_data")) :
          /\ Entry(Frame("backtest_data"), i)
          /\ Frame("account").Shares[i] > Frame("account").Shares[i - 1]

\* an entry bar where the cash did not buy one share, under a positive commission
C1_WitnessNoTrade ==
    /\ FreshAccount
    /\ clicked.commission > 0
    /\ \E i \in LaterBars(Frame("backtest_data")) :
          /\ Entry(Frame("backtest_data"), i)
          /\ Frame("account").Cash[i - 1] < Frame("backtest_data").Open[i]

\* C2: at every bar i >= 1 with Position[i] = -1, held shares are sold at
\* Open[i] less the commission and Shares becomes 0; with no shares held Cash
\* and Shares are carried forward.  At a bar whose Position is neither +1
\* nor -1, Cash and Shares are carried forward.
C2_SellRule ==
    FreshAccount =>
        LET bt == Frame("backtest_data")
            acct == Frame("account")
            commission == clicked.commission
        IN  \A i \in LaterBars(bt) :
                /\ Exit(bt, i) =>
                      IF acct.Shares[i - 1] > 0
                      THEN /\ acct.Cash[i] = acct.Cash[i - 1]
                                               + acct.Shares[i - 1] * bt.Open[i] - commission
                           /\ acct.Shares[i] = 0
                      ELSE Carried(acct, i)
                /\ (~Entry(bt, i) /\ ~Exit(bt, i)) => Carried(acct, i)

\* an exit bar where held shares were sold under a positive commission
C2_Witness ==
    /\ FreshAccount
    /\ clicked.commission > 0
    /\ \E i \in LaterBars(Frame("backtest_data")) :
          /\ Exit(Frame("backtest_data"), i)
          /\ Frame("account").Shares[i - 1] > 0

\* an exit bar with no shares held
C2_WitnessNoShares ==
    /\ FreshAccount
    /\ clicked.commission > 0
    /\ \E i \in LaterBars(Frame("backtest_data")) :
          /\ Exit(Frame("backtest_data"), i)
          /\ Frame("account").Shares[i - 1] = 0

\* C3: row 0 of the ledger is (InitialCapital, 0, InitialCapital) and for
\* every bar i >= 1, Total[i] = Cash[i] + Shares[i] * Close[i].
C3_LedgerTotals ==
    FreshAccount =>
        LET bt == Frame("backtest_data")
            acct == Frame("account")
        IN  /\ acct.Cash[0] = clicked.initial_capital
            /\ acct.Shares[0] = 0
            /\ acct.Total[0] = clicked.initial_capital
            /\ \A i \in LaterBars(bt) :
                  acct.Total[i] = acct.Cash[i] + acct.Shares[i] * bt.Close[i]

\* a ledger with shares held at a bar, so that the total differs from the cash
C3_Witness ==
    /\ FreshAccount
    /\ \E i \in LaterBars(Frame("backtest_data")) :
          /\ Frame("account").Shares[i] > 0
          /\ Frame("account").Total[i] # clicked.initial_capital

\* the commission charged at bar i is covered by the cash on hand when it is
\* debited: after paying for the whole shares at an entry, after the
\* proceeds are credited at an exit
CommissionCovered(bt, acct, commission, i) ==
    /\ (Entry(bt, i) /\ acct.Cash[i - 1] \div bt.Open[i] > 0)
          => commission <= acct.Cash[i - 1] % bt.Open[i]
    /\ (Exit(bt, i) /\ acct.Shares[i - 1] > 0)
          => commission <= acct.Cash[i - 1] + acct.Shares[i - 1] * bt.Open[i]

\* bar i trades: an entry that buys or an exit that sells
Trades(bt, acct, i) ==
    \/ Entry(bt, i) /\ acct.Cash[i - 1] \div bt.Open[i] > 0
    \/ Exit(bt, i) /\ acct.Shares[i - 1] > 0

NonNegativeLedger(acct) ==
    \A i \in DOMAIN acct.Cash : acct.Cash[i] >= 0 /\ acct.Total[i] >= 0

\* C4 as stated: Shares is a non-negative integer in every row, and Cash and
\* Total are non-negative in every row as long as no trade was charged a
\* commission exceeding the cash available at that trade (the cash balance
\* the trade starts from).
C4_AsStated ==
    FreshAccount =>
        LET bt == Frame("backtest_data")
            acct == Frame("account")
        IN  /\ \A i \in Bars(bt) : acct.Shares[i] \in Nat
            /\ (\A i \in LaterBars(bt) :
                    Trades(bt, acct, i) => clicked.commission <= acct.Cash[i - 1])
                  => NonNegativeLedger(acct)

\* C4 (amended): Shares is a non-negative integer in every row, and Cash and
\* Total are non-negative in every row as long as every commission charged is
\* covered by the cash on hand when it is debited: at a buy the cash left
\* after paying for the shares (Cash[i-1] mod Open[i]), at a sell the cash
\* after the proceeds are credited.
C4_LedgerNonNegative ==
    FreshAccount =>
        LET bt == Frame("backtest_data")
            acct == Frame("account")
        IN  /\ \A i \in Bars(bt) : acct.Shares[i] \in Nat
            /\ (\A i \in LaterBars(bt) : CommissionCovered(bt, acct, clicked.commission, i))
                  => NonNegativeLedger(acct)

\* a ledger with a trade whose positive commission was covered
C4_Witness ==
    /\ FreshAccount
    /\ clicked.commission > 0
    /\ \A i \in LaterBars(Frame("backtest_data")) :
          CommissionCovered(Frame("backtest_data"), Frame("account"), clicked.commission, i)
    /\ \E i \in LaterBars(Frame("backtest_data")) :
          Trades(Frame("backtest_data"), Frame("account"), i)

NoPositionChange(bt) == \A i \in Bars(bt) : ~Entry(bt, i) /\ ~Exit(bt, i)

\* C5: for a backtest frame whose Position is never +1 or -1, Total[i] is
\* InitialCapital at every bar, whatever the prices and the commission.
C5_NoSignalNoTrade ==
    (FreshAccount /\ NoPositionChange(Frame("backtest_data"))) =>
        \A i \in Bars(Frame("backtest_data")) :
            /\ Frame("account").Total[i] = clicked.initial_capital
            /\ Frame("account").Shares[i] = 0

\* a ledger of a frame without position changes whose prices move, under a
\* positive commission
C5_Witness ==
    /\ FreshAccount
    /\ NoPositionChange(Frame("backtest_data"))
    /\ clicked.commission > 0
    /\ \E i \in Bars(Frame("backtest_data")) :
          Frame("backtest_data").Close[i] # Frame("backtest_data").Close[0]

\* C6: a Run Simulation taken while no backtest frame is cached shows the
\* precondition message, writes no 'account' entry and leaves 'data' and
\* 'backtest_data' as they were; so 'account' exists only once a Run Backtest
\* has stored 'backtest_data'.
C6_SimulationNeedsBacktest ==
    /\ [](Has("account") => Has("backtest_data"))
    /\ [][(clicked'.button = "Run Simulation" /\ ~Has("backtest_data"))
            => /\ MsgNeedBacktest \in messages'
               /\ session_state' = session_state]_vars

\* a Run Simulation was refused
C6_Witness ==
    /\ clicked.button = "Run Simulation"
    /\ ~Has("backtest_data")
    /\ Has("data")
    /\ MsgNeedBacktest \in messages

\* C7: in the frame returned by backtest_strategy with warm-up w = sma_short,
\* Signal is 0 or 1; it is 0 at every i < w; at i >= w it is 1 exactly when
\* SMA_short[i] > SMA_long[i], an undefined SMA counting as not greater; and
\* Position[i] = Signal[i] - Signal[i-1] for i >= 1, a value in {-1, 0, +1}.
C7_SignalAndPosition ==
    FreshBacktest =>
        LET bt == Frame("backtest_data")
            w == clicked.sma_short
        IN  \A i \in Bars(bt) :
                /\ bt.Signal[i] \in {0, 1}
                /\ i < w => bt.Signal[i] = 0
                /\ i >= w =>
                      (bt.Signal[i] = 1 <=>
                          /\ bt.SMA_short[i][2] # 0
                          /\ bt.SMA_long[i][2] # 0
                          /\ bt.SMA_short[i][1] * bt.SMA_long[i][2]
                               > bt.SMA_long[i][1] * bt.SMA_short[i][2])
                /\ i >= 1 =>
                      /\ bt.Position[i] = <<bt.Signal[i] - bt.Signal[i - 1], 1>>
                      /\ bt.Position[i][1] \in {-1, 0, 1}

\* a frame with a warm-up bar where the short SMA is above the long one, and
\* a later bar where the signal is 1
C7_Witness ==
    /\ FreshBacktest
    /\ \E i \in Bars(Frame("backtest_data")) :
          /\ i < clicked.sma_short
          /\ RatGT(Frame("backtest_data").SMA_short[i], Frame("backtest_data").SMA_long[i])
    /\ \E i \in Bars(Frame("backtest_data")) : Frame("backtest_data").Signal[i] = 1

\* 1 + r, an undefined r counting as 0
Factor(r) == IF IsNaN(r) THEN <<1, 1>> ELSE RatAdd(<<1, 1>>, r)

RECURSIVE ProductFrom(_, _, _, _)
ProductFrom(returns, k, i, acc) ==
    IF k > i THEN acc
    ELSE LET next == RatMul(acc, Factor(returns[k]))
         IN  IF IsNaN(next) THEN NaN ELSE ProductFrom(returns, k + 1, i, next)

\* the product of (1 + r[k]) over k <= i
RunningProduct(returns, i) == ProductFrom(returns, 0, i, <<1, 1>>)

\* C8: Cumulative_Market and Cumulative_Strategy are 1.0 at bar 0, and at
\* every later bar the running product of (1 + return) up to that bar, the
\* undefined return of the first bar counting as 0.
C8_CumulativeStartsAtOne ==
    Has("backtest_data") =>
        LET bt == Frame("backtest_data")
        IN  /\ bt.Cumulative_Market[0] = <<1, 1>>
            /\ bt.Cumulative_Strategy[0] = <<1, 1>>
            /\ \A i \in LaterBars(bt) :
                  /\ bt.Cumulative_Market[i] = RunningProduct(bt.Daily_Return, i)
                  /\ bt.Cumulative_Strategy[i] = RunningProduct(bt.Strategy_Return, i)

\* C9: when the standard deviation of Strategy_Return is 0, the page does
\* not show a Sharpe ratio value (infinite or undefined) but signals the
\* degenerate statistic.
C9_DegenerateSharpeSignalled ==
    (Has("backtest_data") /\ StdIsZero(Frame("backtest_data").Strategy_Return)) =>
        metrics.sharpe_ratio \notin {"nan", "inf", "-inf", "number"}

\* C10: the SMA_short and SMA_long columns written by Run Backtest are the
\* trailing means of Close over the sma_short and sma_long windows of that
\* run, also when Calculate Indicators ran before.
C10_ConfiguredWindows ==
    FreshBacktest =>
        LET bt == Frame("backtest_data")
        IN  /\ bt.SMA_short = RollingMean(bt.Close, clicked.sma_short)
            /\ bt.SMA_long = RollingMean(bt.Close, clicked.sma_long)

====
